---- MODULE Spec2Model ----
(***************************************************************************)
(* Model of the quiz workflow controller of src/App.tsx: the React state   *)
(* of the App component (appState, quizQuestions, userAnswers,             *)
(* currentQuestionIndex, timerDuration, error), the asynchronous           *)
(* generate pipeline of handleQuizGenerate / extractTextFromFile, cut at   *)
(* its await points, and the synchronous event handlers.                   *)
(*                                                                         *)
(* Every action is one run-to-completion piece of JavaScript: the code     *)
(* between two awaits, or one event handler.  The state setters called     *)
(* inside such a piece take effect together.                               *)
(***************************************************************************)
EXTENDS Integers, Sequences, FiniteSets, TLC

\* ---------------------------------------------------------------- bounds
MaxQuestions == 2
NegRange == 2

\* ------------------------------------------------------ program constants
MinTextLength == 100
SnippetLength == 100
InitialTimerDuration == 30

\* ------------------------------------------------------------ characters
RECURSIVE Rep(_, _)
Rep(c, n) == IF n <= 0 THEN <<>> ELSE <<c>> \o Rep(c, n - 1)

IsWhitespace(c) == c \in {" ", "\n", "\t"}

RECURSIVE TrimStart(_)
TrimStart(s) ==
  IF s = <<>> THEN <<>>
  ELSE IF IsWhitespace(Head(s)) THEN TrimStart(Tail(s)) ELSE s

RECURSIVE TrimEnd(_)
TrimEnd(s) ==
  IF s = <<>> THEN <<>>
  ELSE IF IsWhitespace(s[Len(s)]) THEN TrimEnd(SubSeq(s, 1, Len(s) - 1)) ELSE s

\* String.prototype.trim
Trim(s) == TrimEnd(TrimStart(s))

\* String.prototype.substring(0, n)
Substring0(s, n) == SubSeq(s, 1, IF Len(s) < n THEN Len(s) ELSE n)

LowerChar(c) ==
  CASE c = "P" -> "p" [] c = "D" -> "d" [] c = "F" -> "f" [] c = "O" -> "o"
    [] c = "C" -> "c" [] c = "X" -> "x" [] c = "T" -> "t" [] c = "A" -> "a"
    [] OTHER -> c

\* String.prototype.toLowerCase
ToLowerCase(s) == [i \in 1..Len(s) |-> LowerChar(s[i])]

\* name.split('.').pop(): the characters after the last '.', the whole name
\* when it has no '.'
RECURSIVE LastSegment(_)
LastSegment(s) ==
  IF s = <<>> THEN <<>>
  ELSE IF s[Len(s)] = "." THEN <<>>
  ELSE LastSegment(SubSeq(s, 1, Len(s) - 1)) \o <<s[Len(s)]>>

Extension(name) == ToLowerCase(LastSegment(name))

\* items.map(s => s.str).join(' ')
RECURSIVE JoinSpace(_)
JoinSpace(tokens) ==
  IF tokens = <<>> THEN <<>>
  ELSE IF Len(tokens) = 1 THEN tokens[1]
  ELSE tokens[1] \o <<" ">> \o JoinSpace(Tail(tokens))

PageSeparator == <<"\n", "\n">>

\* the page loop putting the new page in front: fullText = pageText + '\n\n' + fullText
AppendPageInFront(text, tokens) == JoinSpace(tokens) \o PageSeparator \o text

\* one iteration of the page loop: fullText += pageText + '\n\n'
AppendPage(text, tokens) == text \o JoinSpace(tokens) \o PageSeparator

\* ---------------------------------------------------------------- inputs
X(n) == Rep("x", n)
ShortDoc == <<"s", "h", "o", "r", "t">>
Doc == <<"d", "o", "c">>

OkPage(tokens) == <<"ok", tokens>>
BadPage == <<"badPage">>
BadText == <<"badText">>

PdfOk(pages) == <<"ok", pages>>
WordOk(text) == <<"ok", text>>
DecodeFail == <<"fail">>

MkFile(name, read, pdf, word) ==
  [name |-> name, read |-> read, pdf |-> pdf, word |-> word]

NamePdf == <<"a", ".", "p", "d", "f">>
NamePdfUpper == <<"a", ".", "P", "D", "F">>
NameDocx == <<"a", ".", "d", "o", "c", "x">>
NameDocMixed == <<"b", ".", "D", "o", "c">>
NameTxt == <<"a", ".", "t", "x", "t">>
NameNoDot == <<"p", "d", "f">>
NamePdfTxt == <<"a", ".", "p", "d", "f", ".", "t", "x", "t">>

Files ==
  { MkFile(NamePdf, "ok", PdfOk(<<OkPage(<<X(MinTextLength)>>)>>), DecodeFail),
    MkFile(NamePdfUpper, "ok",
           PdfOk(<<OkPage(<<X(60)>>), OkPage(<<<<"h", "i">>, X(40)>>)>>), DecodeFail),
    MkFile(NamePdf, "ok", PdfOk(<<OkPage(<<ShortDoc, Doc>>)>>), DecodeFail),
    MkFile(NamePdf, "ok", PdfOk(<<OkPage(<<X(MinTextLength)>>), BadText>>), DecodeFail),
    MkFile(NamePdf, "ok", PdfOk(<<OkPage(<<X(MinTextLength)>>), BadPage>>), DecodeFail),
    MkFile(NamePdf, "ok", DecodeFail, DecodeFail),
    MkFile(NamePdf, "error", DecodeFail, DecodeFail),
    MkFile(NamePdf, "null", DecodeFail, DecodeFail),
    MkFile(NameNoDot, "ok", PdfOk(<<>>), DecodeFail),
    MkFile(NameDocx, "ok", DecodeFail,
           WordOk(<<" ", " ">> \o X(MinTextLength) \o <<"\n">>)),
    MkFile(NameDocMixed, "ok", DecodeFail,
           WordOk(<<" ">> \o X(MinTextLength - 1) \o <<" ", "\n">>)),
    MkFile(NameDocx, "ok", DecodeFail, DecodeFail),
    MkFile(NameTxt, "ok", PdfOk(<<OkPage(<<X(MinTextLength)>>)>>),
           WordOk(X(MinTextLength))),
    MkFile(NameTxt, "error", DecodeFail, DecodeFail),
    MkFile(NamePdfTxt, "ok", PdfOk(<<OkPage(<<X(MinTextLength)>>)>>), DecodeFail) }

NoFile == MkFile(<<>>, "ok", DecodeFail, DecodeFail)

NumQuestionChoices == 1..MaxQuestions
Durations == {15, 60}

QuestionPool == {"q1", "q2"}
QuestionLists == UNION {[1..n -> QuestionPool] : n \in 0..MaxQuestions}

Answers == {"A", "B"}
Undefined == "undefined"

JumpIndices == (0 - NegRange)..MaxQuestions

\* ------------------------------------------------------------- messages
Null == <<>>
MsgReadNull == <<"Failed to read file.">>
MsgReadError == <<"An error occurred while reading the file.">>
MsgUnsupported == <<"Unsupported file type. Please upload a PDF, DOC, or DOCX file.">>
MsgPdfParse == <<"Failed to parse the PDF. It might be corrupted, password-protected, or in an unsupported format.">>
MsgWordParse == <<"Failed to parse the Word document. It might be corrupted or password-protected.">>
MsgUnknown == <<"An unknown error occurred while generating the quiz.">>
MsgTooShort(trimmedText) ==
  <<"Document content is too short", Len(trimmedText),
    Substring0(trimmedText, SnippetLength)>>

\* what generateQuizFromText may throw: an Error carrying a message, or a
\* value that is not an Error
ProducerThrows == {<<"Error", <<"Failed to generate quiz.">>>>, <<"NotError">>}

\* err instanceof Error ? err.message : 'An unknown error occurred ...'
ErrorMessageOf(err) == IF err[1] = "Error" THEN err[2] ELSE MsgUnknown

\* ----------------------------------------------------------------- state
VARIABLES
  appState,               \* useState<AppState>('setup')
  quizQuestions,          \* useState<QuizQuestion[]>([])
  userAnswers,            \* useState<string[]>([]): the array elements
  userAnswersProps,       \* non-index properties of the userAnswers array
  currentQuestionIndex,   \* useState(0), 0-based as in the code
  timerDuration,          \* useState(30)
  error,                  \* useState<string | null>(null)
  pc,                     \* await point the running handleQuizGenerate is at
  file,                   \* argument of the running handleQuizGenerate
  numQuestions,           \* argument of the running handleQuizGenerate
  duration,               \* argument of the running handleQuizGenerate
  fullText,               \* local of extractTextFromFile / fileText
  pageNo,                 \* loop variable i of the page loop
  atSubmit,               \* history: the session when the last run started
  produced,               \* history: the list the producer last returned
  lastEvent               \* history: the handler that ran last

vars == <<appState, quizQuestions, userAnswers, userAnswersProps,
          currentQuestionIndex, timerDuration, error, pc, file, numQuestions,
          duration, fullText, pageNo, atSubmit, produced, lastEvent>>

session == <<quizQuestions, userAnswers, userAnswersProps,
             currentQuestionIndex, timerDuration>>
locals == <<file, numQuestions, duration, fullText, pageNo>>
history == <<atSubmit, produced>>

Snapshot ==
  [questions |-> quizQuestions, answers |-> userAnswers,
   index |-> currentQuestionIndex, timer |-> timerDuration]

AppStates == {"setup", "generating", "quiz", "review", "results"}

Init ==
  /\ appState = "setup"
  /\ quizQuestions = <<>>
  /\ userAnswers = <<>>
  /\ userAnswersProps = {}
  /\ currentQuestionIndex = 0
  /\ timerDuration = InitialTimerDuration
  /\ error = Null
  /\ pc = "idle"
  /\ file = NoFile
  /\ numQuestions = 0
  /\ duration = 0
  /\ fullText = <<>>
  /\ pageNo = 0
  /\ atSubmit = [questions |-> <<>>, answers |-> <<>>, index |-> 0,
                 timer |-> InitialTimerDuration]
  /\ produced = <<>>
  /\ lastEvent = "init"

\* the locals of a run are gone once handleQuizGenerate has returned
DropLocals ==
  /\ file' = NoFile
  /\ numQuestions' = 0
  /\ duration' = 0
  /\ fullText' = <<>>
  /\ pageNo' = 0

\* --------------------------------------------------- handleQuizGenerate
\* Submit without setError(null)
SubmitKeepsError(f, n, d) ==
  /\ appState = "setup"
  /\ pc = "idle"
  /\ appState' = "generating"
  /\ error' = error
  /\ file' = f
  /\ numQuestions' = n
  /\ duration' = d
  /\ fullText' = <<>>
  /\ pageNo' = 0
  /\ pc' = "read"
  /\ atSubmit' = Snapshot
  /\ lastEvent' = "submit"
  /\ UNCHANGED <<session, produced>>

\* Submit with QuizSetup reachable in every phase
SubmitInAnyPhase(f, n, d) ==
  /\ appState' = "generating"
  /\ error' = Null
  /\ file' = f
  /\ numQuestions' = n
  /\ duration' = d
  /\ fullText' = <<>>
  /\ pageNo' = 0
  /\ pc' = "read"
  /\ atSubmit' = Snapshot
  /\ lastEvent' = "submit"
  /\ UNCHANGED <<session, produced>>

\* lines 18-22 up to fileReader.readAsArrayBuffer(file): QuizSetup, the only
\* caller of onGenerate, is rendered in 'setup' only
Submit(f, n, d) ==
  /\ appState = "setup"
  /\ pc = "idle"
  /\ appState' = "generating"
  /\ error' = Null
  /\ file' = f
  /\ numQuestions' = n
  /\ duration' = d
  /\ fullText' = <<>>
  /\ pageNo' = 0
  /\ pc' = "read"
  /\ atSubmit' = Snapshot
  /\ lastEvent' = "submit"
  /\ UNCHANGED <<session, produced>>

\* Catch without setError(errorMessage)
CatchKeepsError(msg) ==
  /\ error' = error
  /\ appState' = "setup"
  /\ pc' = "idle"
  /\ DropLocals
  /\ lastEvent' = "failed"
  /\ UNCHANGED <<session, history>>

\* the catch block, lines 34-39
Catch(msg) ==
  /\ error' = msg
  /\ appState' = "setup"
  /\ pc' = "idle"
  /\ DropLocals
  /\ lastEvent' = "failed"
  /\ UNCHANGED <<session, history>>

\* move on to the next await of the same run
Await(next) ==
  /\ pc' = next
  /\ UNCHANGED <<appState, error, session, history, file, numQuestions, duration>>

\* a FileReader without an onerror handler: the promise never settles
FileReaderOnErrorUnhandled ==
  /\ pc = "read"
  /\ file.read = "error"
  /\ UNCHANGED vars

\* fileReader.onerror, lines 82-85
FileReaderOnError ==
  /\ pc = "read"
  /\ file.read = "error"
  /\ Catch(MsgReadError)

\* fileReader.onload up to its first await, lines 47-57 and 64-69
FileReaderOnLoad ==
  /\ pc = "read"
  /\ file.read # "error"
  /\ IF file.read = "null" THEN Catch(MsgReadNull)
     ELSE IF Extension(file.name) = <<"p", "d", "f">>
       THEN Await("getDocument") /\ lastEvent' = "onload"
                                 /\ UNCHANGED <<fullText, pageNo>>
     ELSE IF Extension(file.name) \in {<<"d", "o", "c", "x">>, <<"d", "o", "c">>}
       THEN Await("extractRawText") /\ lastEvent' = "onload"
                                    /\ UNCHANGED <<fullText, pageNo>>
     ELSE Catch(MsgUnsupported)

NumPages == Len(file.pdf[2])

\* pdfjsLib.getDocument(...).promise settles, lines 57-58 and 71-80
GetDocumentDone ==
  /\ pc = "getDocument"
  /\ IF file.pdf = DecodeFail THEN Catch(MsgPdfParse)
     ELSE /\ lastEvent' = "getDocument"
          /\ pageNo' = 1
          /\ fullText' = fullText
          /\ IF 1 <= NumPages THEN Await("getPage") ELSE Await("validate")

\* pdf.getPage(i) settles, lines 59-60 and 73-80
GetPageDone ==
  /\ pc = "getPage"
  /\ IF file.pdf[2][pageNo] = BadPage THEN Catch(MsgPdfParse)
     ELSE /\ lastEvent' = "getPage"
          /\ UNCHANGED <<fullText, pageNo>>
          /\ Await("getTextContent")

\* page.getTextContent() settles, lines 60-63, 58 and 71-80
GetTextContentDone ==
  /\ pc = "getTextContent"
  /\ IF file.pdf[2][pageNo] = BadText THEN Catch(MsgPdfParse)
     ELSE /\ lastEvent' = "getTextContent"
          /\ fullText' = AppendPage(fullText, file.pdf[2][pageNo][2])
          /\ pageNo' = pageNo + 1
          /\ IF pageNo + 1 <= NumPages THEN Await("getPage") ELSE Await("validate")

\* mammoth.extractRawText(...) settles, lines 65-66 and 71-80
ExtractRawTextDone ==
  /\ pc = "extractRawText"
  /\ IF file.word = DecodeFail THEN Catch(MsgWordParse)
     ELSE /\ lastEvent' = "extractRawText"
          /\ fullText' = file.word[2]
          /\ pageNo' = pageNo
          /\ Await("validate")

\* the length check on the text as extracted, without trim()
TooShortUntrimmed(text) == Len(text) < MinTextLength

\* the length check of line 24
TooShort(text) == Len(Trim(text)) < MinTextLength

\* handleQuizGenerate resumes with fileText, lines 22-28
Validate ==
  /\ pc = "validate"
  /\ IF TooShort(fullText) THEN Catch(MsgTooShort(Trim(fullText)))
     ELSE /\ lastEvent' = "validated"
          /\ UNCHANGED <<fullText, pageNo>>
          /\ Await("generate")

\* new Array(n).fill('')
BlankAnswers(n) == [i \in 1..n |-> ""]

\* GenerateResolves without setTimerDuration(duration)
GenerateResolvesKeepsTimer(questions) ==
  /\ pc = "generate"
  /\ quizQuestions' = questions
  /\ userAnswers' = BlankAnswers(Len(questions))
  /\ userAnswersProps' = {}
  /\ timerDuration' = timerDuration
  /\ currentQuestionIndex' = 0
  /\ appState' = "quiz"
  /\ pc' = "idle"
  /\ DropLocals
  /\ produced' = questions
  /\ lastEvent' = "installed"
  /\ UNCHANGED <<error, atSubmit>>

\* GenerateResolves that publishes the questions and leaves the other
\* setters to a later turn
GenerateResolvesInTwoTurns(questions) ==
  /\ pc = "generate"
  /\ IF quizQuestions # questions
     THEN /\ quizQuestions' = questions
          /\ produced' = questions
          /\ lastEvent' = "generated"
          /\ UNCHANGED <<appState, userAnswers, userAnswersProps, timerDuration,
                         currentQuestionIndex, pc, locals, error, atSubmit>>
     ELSE /\ userAnswers' = BlankAnswers(Len(questions))
          /\ userAnswersProps' = {}
          /\ timerDuration' = duration
          /\ currentQuestionIndex' = 0
          /\ appState' = "quiz"
          /\ pc' = "idle"
          /\ DropLocals
          /\ produced' = questions
          /\ lastEvent' = "installed"
          /\ UNCHANGED <<quizQuestions, error, atSubmit>>

\* GenerateResolves that sizes the answers by the requested count
GenerateResolvesByRequest(questions) ==
  /\ pc = "generate"
  /\ quizQuestions' = questions
  /\ userAnswers' = BlankAnswers(numQuestions)
  /\ userAnswersProps' = {}
  /\ timerDuration' = duration
  /\ currentQuestionIndex' = 0
  /\ appState' = "quiz"
  /\ pc' = "idle"
  /\ DropLocals
  /\ produced' = questions
  /\ lastEvent' = "installed"
  /\ UNCHANGED <<error, atSubmit>>

\* generateQuizFromText resolves with questions, lines 28-33
GenerateResolves(questions) ==
  /\ pc = "generate"
  /\ quizQuestions' = questions
  /\ userAnswers' = BlankAnswers(Len(questions))
  /\ userAnswersProps' = {}
  /\ timerDuration' = duration
  /\ currentQuestionIndex' = 0
  /\ appState' = "quiz"
  /\ pc' = "idle"
  /\ DropLocals
  /\ produced' = questions
  /\ lastEvent' = "installed"
  /\ UNCHANGED <<error, atSubmit>>

\* generateQuizFromText rejects, lines 28 and 34-39
GenerateRejects(err) ==
  /\ pc = "generate"
  /\ Catch(ErrorMessageOf(err))

\* ------------------------------------------------------- event handlers
\* userAnswers[j] as JavaScript reads it
ReadAnswer(arr, props, j) ==
  IF 0 <= j /\ j < Len(arr) THEN arr[j + 1]
  ELSE IF \E p \in props : p[1] = j THEN (CHOOSE p \in props : p[1] = j)[2]
  ELSE Undefined

\* newAnswers = [...userAnswers]; newAnswers[index] = answer  (the elements)
SetElement(arr, index, answer) ==
  IF index < 0 THEN arr
  ELSE IF index < Len(arr) THEN [arr EXCEPT ![index + 1] = answer]
  ELSE arr \o [i \in 1..(index - Len(arr)) |-> Undefined] \o <<answer>>

\* the same assignment, the non-index properties: the spread copies none
SetProperty(index, answer) ==
  IF index < 0 THEN {<<index, answer>>} ELSE {}

\* QuizView is rendered in 'quiz' only, lines 133-147
\* handleAnswerSelect, lines 90-94
HandleAnswerSelect(answer) ==
  /\ appState = "quiz"
  /\ userAnswers' = SetElement(userAnswers, currentQuestionIndex, answer)
  /\ userAnswersProps' = SetProperty(currentQuestionIndex, answer)
  /\ lastEvent' = "selectAnswer"
  /\ UNCHANGED <<appState, quizQuestions, currentQuestionIndex, timerDuration,
                 error, pc, locals, history>>

\* HandleNextQuestion with the guard off by one
HandleNextQuestionOffByOne ==
  /\ appState = "quiz"
  /\ currentQuestionIndex' =
       IF currentQuestionIndex <= Len(quizQuestions) - 1
       THEN currentQuestionIndex + 1 ELSE currentQuestionIndex
  /\ lastEvent' = "next"
  /\ UNCHANGED <<appState, quizQuestions, userAnswers, userAnswersProps,
                 timerDuration, error, pc, locals, history>>

\* handleNextQuestion, lines 96-100
HandleNextQuestion ==
  /\ appState = "quiz"
  /\ currentQuestionIndex' =
       IF currentQuestionIndex < Len(quizQuestions) - 1
       THEN currentQuestionIndex + 1 ELSE currentQuestionIndex
  /\ lastEvent' = "next"
  /\ UNCHANGED <<appState, quizQuestions, userAnswers, userAnswersProps,
                 timerDuration, error, pc, locals, history>>

\* handlePrevQuestion, lines 102-106
HandlePrevQuestion ==
  /\ appState = "quiz"
  /\ currentQuestionIndex' =
       IF currentQuestionIndex > 0
       THEN currentQuestionIndex - 1 ELSE currentQuestionIndex
  /\ lastEvent' = "prev"
  /\ UNCHANGED <<appState, quizQuestions, userAnswers, userAnswersProps,
                 timerDuration, error, pc, locals, history>>

\* HandleQuizFinish that also goes back to the first question
HandleQuizFinishRewinds ==
  /\ appState = "quiz"
  /\ appState' = "review"
  /\ currentQuestionIndex' = 0
  /\ lastEvent' = "finish"
  /\ UNCHANGED <<quizQuestions, userAnswers, userAnswersProps, timerDuration,
                 error, pc, locals, history>>

\* HandleQuizFinish that also restores the default timer
HandleQuizFinishResetsTimer ==
  /\ appState = "quiz"
  /\ appState' = "review"
  /\ timerDuration' = InitialTimerDuration
  /\ lastEvent' = "finish"
  /\ UNCHANGED <<quizQuestions, userAnswers, userAnswersProps,
                 currentQuestionIndex, error, pc, locals, history>>

\* handleQuizFinish, lines 108-110
HandleQuizFinish ==
  /\ appState = "quiz"
  /\ appState' = "review"
  /\ lastEvent' = "finish"
  /\ UNCHANGED <<session, error, pc, locals, history>>

\* QuizReview is rendered in 'review' only, lines 148-156
\* handleFinalSubmit, lines 112-114
HandleFinalSubmit ==
  /\ appState = "review"
  /\ appState' = "results"
  /\ lastEvent' = "finalSubmit"
  /\ UNCHANGED <<session, error, pc, locals, history>>

\* handleJumpToQuestion, lines 116-119
HandleJumpToQuestion(index) ==
  /\ appState = "review"
  /\ currentQuestionIndex' = index
  /\ appState' = "quiz"
  /\ lastEvent' = "jumpToQuestion"
  /\ UNCHANGED <<quizQuestions, userAnswers, userAnswersProps, timerDuration,
                 error, pc, locals, history>>

\* HandleRetry without setUserAnswers([])
HandleRetryKeepsAnswers ==
  /\ appState = "results"
  /\ quizQuestions' = <<>>
  /\ userAnswers' = userAnswers
  /\ userAnswersProps' = userAnswersProps
  /\ currentQuestionIndex' = 0
  /\ error' = Null
  /\ appState' = "setup"
  /\ lastEvent' = "retry"
  /\ UNCHANGED <<timerDuration, pc, locals, history>>

\* HandleRetry without setAppState('setup')
HandleRetryStaysInResults ==
  /\ appState = "results"
  /\ quizQuestions' = <<>>
  /\ userAnswers' = <<>>
  /\ userAnswersProps' = {}
  /\ currentQuestionIndex' = 0
  /\ error' = Null
  /\ appState' = appState
  /\ lastEvent' = "retry"
  /\ UNCHANGED <<timerDuration, pc, locals, history>>

\* HandleRetry without setCurrentQuestionIndex(0)
HandleRetryKeepsIndex ==
  /\ appState = "results"
  /\ quizQuestions' = <<>>
  /\ userAnswers' = <<>>
  /\ userAnswersProps' = {}
  /\ currentQuestionIndex' = currentQuestionIndex
  /\ error' = Null
  /\ appState' = "setup"
  /\ lastEvent' = "retry"
  /\ UNCHANGED <<timerDuration, pc, locals, history>>

\* QuizResults is rendered in 'results' only, lines 157-165
\* handleRetry, lines 121-127
HandleRetry ==
  /\ appState = "results"
  /\ quizQuestions' = <<>>
  /\ userAnswers' = <<>>
  /\ userAnswersProps' = {}
  /\ currentQuestionIndex' = 0
  /\ error' = Null
  /\ appState' = "setup"
  /\ lastEvent' = "retry"
  /\ UNCHANGED <<timerDuration, pc, locals, history>>

Next ==
  \/ \E f \in Files, n \in NumQuestionChoices, d \in Durations : Submit(f, n, d)
  \/ FileReaderOnError
  \/ FileReaderOnLoad
  \/ GetDocumentDone
  \/ GetPageDone
  \/ GetTextContentDone
  \/ ExtractRawTextDone
  \/ Validate
  \/ \E questions \in QuestionLists : GenerateResolves(questions)
  \/ \E err \in ProducerThrows : GenerateRejects(err)
  \/ \E answer \in Answers : HandleAnswerSelect(answer)
  \/ HandleNextQuestion
  \/ HandlePrevQuestion
  \/ HandleQuizFinish
  \/ HandleFinalSubmit
  \/ \E index \in JumpIndices : HandleJumpToQuestion(index)
  \/ HandleRetry

Spec == Init /\ [][Next]_vars

\* every asynchronous collaborator (file read, decoders, producer) eventually
\* answers and the continuation waiting for it then runs
PipelineStep ==
  \/ FileReaderOnError
  \/ FileReaderOnLoad
  \/ GetDocumentDone
  \/ GetPageDone
  \/ GetTextContentDone
  \/ ExtractRawTextDone
  \/ Validate
  \/ \E questions \in QuestionLists : GenerateResolves(questions)
  \/ \E err \in ProducerThrows : GenerateRejects(err)

LiveSpec == Spec /\ WF_vars(PipelineStep)

\* ---------------------------------------------------------------- claims
InQuizOrReview == appState \in {"quiz", "review"}

\* C1: in every state of the quiz or review phase,
\* 0 <= currentIndex < len(questions)
C1_IndexInRange ==
  InQuizOrReview =>
    (0 <= currentQuestionIndex /\ currentQuestionIndex < Len(quizQuestions))

\* C2: in every state, len(userAnswers) = len(questions)
C2_AnswersMatchQuestions == Len(userAnswers) = Len(quizQuestions)

\* the step of a run that is about to fail, and the message of that failure
ExtractionFails ==
  \/ pc = "read" /\ file.read # "ok"
  \/ pc = "read" /\ Extension(file.name) \notin
       {<<"p", "d", "f">>, <<"d", "o", "c", "x">>, <<"d", "o", "c">>}
  \/ pc = "getDocument" /\ file.pdf = DecodeFail
  \/ pc = "getPage" /\ file.pdf[2][pageNo] = BadPage
  \/ pc = "getTextContent" /\ file.pdf[2][pageNo] = BadText
  \/ pc = "extractRawText" /\ file.word = DecodeFail
LengthCheckFails == pc = "validate" /\ Len(Trim(fullText)) < MinTextLength
GenerationFails == pc = "generate" /\ lastEvent' = "failed"
FailureMessages ==
  {MsgReadNull, MsgReadError, MsgUnsupported, MsgPdfParse, MsgWordParse,
   MsgUnknown}
    \cup {ErrorMessageOf(e) : e \in ProducerThrows}

\* C3: a run whose extraction, length check or generation fails ends in
\* 'setup' with a non-null error message, and questions, userAnswers and
\* currentIndex are what they were when the submission started
C3_FailureRestoresSetup ==
  [][(ExtractionFails \/ LengthCheckFails \/ GenerationFails) =>
       /\ appState' = "setup"
       /\ pc' = "idle"
       /\ error' # Null
       /\ LengthCheckFails => error' = MsgTooShort(Trim(fullText))
       /\ ~LengthCheckFails => error' \in FailureMessages
       /\ quizQuestions' = atSubmit.questions
       /\ userAnswers' = atSubmit.answers
       /\ currentQuestionIndex' = atSubmit.index]_vars

C3_Witness ==
  /\ lastEvent = "failed"
  /\ appState = "setup"
  /\ error # Null
  /\ error[1] = "Document content is too short"

\* C4: a run that succeeds ends in 'quiz' with the producer's complete list
\* as questions, one empty answer per question, currentIndex 0 and the
\* submitted duration as timerDuration
C4_SuccessInstallsSession ==
  [][(pc = "generate" /\ lastEvent' = "installed") =>
       /\ Len(Trim(fullText)) >= MinTextLength
       /\ appState' = "quiz"
       /\ quizQuestions' = produced'
       /\ userAnswers' = [i \in 1..Len(produced') |-> ""]
       /\ userAnswersProps' = {}
       /\ currentQuestionIndex' = 0
       /\ timerDuration' = duration]_vars

C4_Witness ==
  /\ lastEvent = "installed"
  /\ appState = "quiz"
  /\ Len(quizQuestions) = 2
  /\ userAnswers = <<"", "">>
  /\ timerDuration = 15

\* C5: the installation is one step: while a run is in flight the session is
\* the one the submission started from, and the step that changes any of
\* questions, userAnswers, currentIndex, timerDuration or enters 'quiz'
\* installs all five
SessionAsSubmitted ==
  /\ quizQuestions = atSubmit.questions
  /\ userAnswers = atSubmit.answers
  /\ currentQuestionIndex = atSubmit.index
  /\ timerDuration = atSubmit.timer
InstallTouched ==
  \/ quizQuestions' # quizQuestions
  \/ userAnswers' # userAnswers
  \/ currentQuestionIndex' # currentQuestionIndex
  \/ timerDuration' # timerDuration
  \/ appState' = "quiz"
C5_InstallIsAtomic ==
  /\ [](appState = "generating" => SessionAsSubmitted)
  /\ [][(pc # "idle" /\ InstallTouched) =>
          /\ pc = "generate"
          /\ appState' = "quiz"
          /\ quizQuestions' = produced'
          /\ userAnswers' = [i \in 1..Len(produced') |-> ""]
          /\ currentQuestionIndex' = 0
          /\ timerDuration' = duration]_vars

C5_Witness ==
  /\ lastEvent = "installed"
  /\ appState = "quiz"
  /\ quizQuestions # atSubmit.questions
  /\ userAnswers # atSubmit.answers
  /\ timerDuration # atSubmit.timer

\* C6 as stated: a successful run for numQuestions = n installs exactly n
\* questions and n answers, whatever list the producer returns
C6_ExactlyRequestedCount ==
  [][(pc = "generate" /\ lastEvent' = "installed") =>
       (Len(quizQuestions') = numQuestions /\ Len(userAnswers') = numQuestions)]_vars

\* C6 amended: a successful run installs exactly as many questions and
\* answers as the list the producer returned, which is n when that list has
\* n entries
C6_ExactlyReturnedCount ==
  [][(pc = "generate" /\ lastEvent' = "installed") =>
       /\ Len(quizQuestions') = Len(produced')
       /\ Len(userAnswers') = Len(produced')
       /\ Len(produced') = numQuestions =>
            (Len(quizQuestions') = numQuestions /\ Len(userAnswers') = numQuestions)]_vars

C6_Witness ==
  /\ lastEvent = "installed"
  /\ Len(produced) = 1
  /\ Len(quizQuestions) = 1
  /\ Len(userAnswers) = 1

\* C7: a jumpToQuestion from 'review' either moves to 'quiz' with an index
\* inside the question list, or changes neither appState nor currentIndex
C7_JumpGuarded ==
  [][(appState = "review" /\ lastEvent' = "jumpToQuestion") =>
       \/ /\ appState' = "quiz"
          /\ 0 <= currentQuestionIndex'
          /\ currentQuestionIndex' < Len(quizQuestions)
       \/ /\ appState' = appState
          /\ currentQuestionIndex' = currentQuestionIndex]_vars

\* C8: in 'quiz', next adds exactly 1 below the last question and nothing at
\* the last question, prev subtracts exactly 1 above 0 and nothing at 0, and
\* appState stays 'quiz'
C8_NextPrevBounded ==
  [][(appState = "quiz" /\ lastEvent' \in {"next", "prev"}) =>
       /\ appState' = "quiz"
       /\ (lastEvent' = "next" /\ currentQuestionIndex < Len(quizQuestions) - 1)
            => currentQuestionIndex' = currentQuestionIndex + 1
       /\ (lastEvent' = "next" /\ currentQuestionIndex = Len(quizQuestions) - 1)
            => currentQuestionIndex' = currentQuestionIndex
       /\ (lastEvent' = "prev" /\ currentQuestionIndex > 0)
            => currentQuestionIndex' = currentQuestionIndex - 1
       /\ (lastEvent' = "prev" /\ currentQuestionIndex = 0)
            => currentQuestionIndex' = currentQuestionIndex]_vars

C8_Witness ==
  /\ lastEvent = "next"
  /\ appState = "quiz"
  /\ Len(quizQuestions) = 2
  /\ currentQuestionIndex = Len(quizQuestions) - 1

\* C9: in 'quiz', selectAnswer stores an answer at userAnswers[currentIndex],
\* leaves userAnswers[j] as it was for every other j, and changes neither
\* appState nor currentIndex
AnswerIndices == (0 - NegRange)..(MaxQuestions + 1)
C9_SelectTouchesOneEntry ==
  [][(appState = "quiz" /\ lastEvent' = "selectAnswer") =>
       /\ appState' = appState
       /\ currentQuestionIndex' = currentQuestionIndex
       /\ ReadAnswer(userAnswers', userAnswersProps', currentQuestionIndex) \in Answers
       /\ \A j \in AnswerIndices \ {currentQuestionIndex} :
            ReadAnswer(userAnswers', userAnswersProps', j)
              = ReadAnswer(userAnswers, userAnswersProps, j)]_vars

\* C10: after retry from 'results' the state is 'setup' with no questions, no
\* answers, currentIndex 0 and no error message
C10_RetryClears ==
  lastEvent = "retry" =>
    /\ appState = "setup"
    /\ quizQuestions = <<>>
    /\ userAnswers = <<>>
    /\ userAnswersProps = {}
    /\ currentQuestionIndex = 0
    /\ error = Null

C10_Witness ==
  /\ lastEvent = "retry"
  /\ appState = "setup"
  /\ produced # <<>>
  /\ quizQuestions = <<>>

\* C11: after a successful extraction the run fails with the too-short
\* message exactly when the trimmed text has fewer than 100 characters; then
\* the producer is not invoked, otherwise it is invoked once, after the check,
\* and the run ends when it answers
ProducerInvoked == pc # "generate" /\ pc' = "generate"
C11_TooShortIffUnder100 ==
  [][/\ pc = "validate" =>
          /\ (Len(Trim(fullText)) < MinTextLength) <=>
               (lastEvent' = "failed" /\ error' # Null
                  /\ error'[1] = "Document content is too short")
          /\ (Len(Trim(fullText)) < MinTextLength) => ~ProducerInvoked
          /\ (Len(Trim(fullText)) >= MinTextLength) => ProducerInvoked
     /\ ProducerInvoked => pc = "validate"
     /\ pc = "generate" => pc' = "idle"]_vars

C11_Witness ==
  /\ pc = "generate"
  /\ lastEvent = "validated"
  /\ Len(Trim(fullText)) = MinTextLength
  /\ Len(fullText) > MinTextLength

\* C12: a run is in flight exactly while appState is 'generating'; a submit
\* happens only in 'setup' with no run in flight, the stages of a run follow
\* the order read, decode, validate, generate, and a run completes only while
\* appState is 'generating'
StageRank(p) ==
  CASE p = "read" -> 1
    [] p \in {"getDocument", "getPage", "getTextContent", "extractRawText"} -> 2
    [] p = "validate" -> 3
    [] p = "generate" -> 4
    [] OTHER -> 0
C12_OneRunInFlight ==
  /\ []((pc # "idle") <=> (appState = "generating"))
  /\ [][/\ lastEvent' = "submit" => (appState = "setup" /\ pc = "idle")
        /\ (pc # "idle" /\ pc' # "idle") => StageRank(pc) <= StageRank(pc')
        /\ (pc # "idle" /\ pc' = "idle") => appState = "generating"]_vars

C12_Witness ==
  /\ appState = "generating"
  /\ pc = "generate"
  /\ lastEvent = "validated"
  /\ file.name = NameDocx

\* C13: whenever appState is 'generating' it eventually is 'quiz' or 'setup',
\* and while it is 'generating' only the steps of the run happen
PipelineEvents ==
  {"onload", "getDocument", "getPage", "getTextContent", "extractRawText",
   "validated", "installed", "failed"}
C13_RunCompletes ==
  /\ (appState = "generating") ~> (appState \in {"quiz", "setup"})
  /\ [][appState = "generating" =>
          /\ lastEvent' \in PipelineEvents
          /\ appState' \in {"generating", "quiz", "setup"}]_vars

C13_Witness ==
  /\ lastEvent = "failed"
  /\ appState = "setup"
  /\ error = MsgReadError

\* C14: appState is always one of the five states, and every reachable state
\* other than 'setup' has a step that brings it closer to 'setup' (results by
\* retry, review by finalSubmit, quiz by finish, generating by the next step
\* of the run), so no reachable state is a trap; the five states are all
\* reached on the way to the witness
StepsOfRunLeft ==
  CASE pc = "generate" -> 1
    [] pc = "validate" -> 2
    [] pc = "extractRawText" -> 3
    [] pc = "getTextContent" -> 3 + 2 * (NumPages - pageNo)
    [] pc = "getPage" -> 4 + 2 * (NumPages - pageNo)
    [] pc = "getDocument" -> 1000
    [] pc = "read" -> 1001
    [] OTHER -> 0
DistanceToSetup ==
  CASE appState = "setup" -> 0
    [] appState = "results" -> 1
    [] appState = "review" -> 2
    [] appState = "quiz" -> 3
    [] appState = "generating" -> 3 + StepsOfRunLeft
    [] OTHER -> 0
C14_FiveStatesNoTrap ==
  /\ appState \in AppStates
  /\ appState # "setup" => ENABLED (Next /\ DistanceToSetup' < DistanceToSetup)

C14_Witness ==
  /\ lastEvent = "retry"
  /\ appState = "setup"
  /\ timerDuration = 60
  /\ Len(produced) = MaxQuestions

\* C15: a submit happens in 'setup', moves to 'generating' and sets the error
\* message to null; no error message is held while a run is in flight, and a
\* non-null error message is only ever held in 'setup' right after the
\* failure that set it
C15_SubmitClearsError ==
  /\ [](appState = "generating" => error = Null)
  /\ [](error # Null => (appState = "setup" /\ lastEvent = "failed"))
  /\ [][lastEvent' = "submit" =>
          /\ appState = "setup"
          /\ appState' = "generating"
          /\ error' = Null]_vars

C15_Witness ==
  /\ lastEvent = "submit"
  /\ appState = "generating"
  /\ error = Null
  /\ pc = "read"

\* C16: finish is possible in every 'quiz' state, whatever the index and the
\* answers, and moves to 'review'; finalSubmit moves 'review' to 'results';
\* neither changes currentIndex or userAnswers; so a finish after a jump is
\* back in 'review'
C16_FinishReturnsToReview ==
  /\ [](appState = "quiz" => ENABLED HandleQuizFinish)
  /\ [][/\ lastEvent' = "finish" =>
             (appState = "quiz" /\ appState' = "review")
        /\ lastEvent' = "finalSubmit" =>
             (appState = "review" /\ appState' = "results")
        /\ lastEvent' \in {"finish", "finalSubmit"} =>
             /\ currentQuestionIndex' = currentQuestionIndex
             /\ userAnswers' = userAnswers
             /\ userAnswersProps' = userAnswersProps]_vars

C16_Witness ==
  /\ lastEvent = "finish"
  /\ appState = "review"
  /\ currentQuestionIndex = 1
  /\ userAnswers = <<"", "">>

\* C17: a run on a file whose extension is not pdf, doc or docx fails with the
\* unsupported-format message whatever the read gives, and no decoder is
\* invoked for it; a pdf file reaches only the PDF decoder and a doc or docx
\* file only the Word decoder
PdfExtension == <<"p", "d", "f">>
WordExtensions == {<<"d", "o", "c", "x">>, <<"d", "o", "c">>}
PdfDecoderStages == {"getDocument", "getPage", "getTextContent"}
WordDecoderStages == {"extractRawText"}
C17_UnsupportedNeverDecoded ==
  [][pc = "read" =>
       /\ Extension(file.name) \notin ({PdfExtension} \cup WordExtensions) =>
            /\ pc' = "idle"
            /\ appState' = "setup"
            /\ error' = MsgUnsupported
       /\ Extension(file.name) = PdfExtension => pc' \notin WordDecoderStages
       /\ Extension(file.name) \in WordExtensions => pc' \notin PdfDecoderStages]_vars

\* the text of a list of decoded pages: each page's tokens joined by one
\* space, a blank line between consecutive pages and nothing after the last
RECURSIVE PagesSeparated(_)
PagesSeparated(pages) ==
  IF pages = <<>> THEN <<>>
  ELSE IF Len(pages) = 1 THEN JoinSpace(pages[1][2])
  ELSE JoinSpace(pages[1][2]) \o PageSeparator \o PagesSeparated(Tail(pages))

\* the same with the blank line after every page, the last one included
RECURSIVE PagesTerminated(_)
PagesTerminated(pages) ==
  IF pages = <<>> THEN <<>>
  ELSE JoinSpace(pages[1][2]) \o PageSeparator \o PagesTerminated(Tail(pages))

PdfExtracted == pc \in PdfDecoderStages /\ pc' = "validate"
PageDecodeFails ==
  \/ pc = "getPage" /\ file.pdf[2][pageNo] = BadPage
  \/ pc = "getTextContent" /\ file.pdf[2][pageNo] = BadText
PagesInOrder ==
  /\ (pc = "getDocument" /\ pc' = "getPage") => pageNo' = 1
  /\ (pc = "getPage" /\ pc' = "getTextContent") => pageNo' = pageNo
  /\ (pc = "getTextContent" /\ pc' = "getPage") => pageNo' = pageNo + 1
  /\ PageDecodeFails =>
       /\ pc' = "idle"
       /\ appState' = "setup"
       /\ error' = MsgPdfParse
       /\ fullText' = <<>>

\* C18 as stated: the text extracted from a PDF whose pages all decode is the
\* pages' texts in page order with a blank line between consecutive pages
\* and nothing after the last page; pages are decoded one at a time in
\* increasing order and a page that fails to decode fails the extraction
\* with the PDF parse failure and no text
C18_BlankLineBetweenPages ==
  [][/\ PdfExtracted => fullText' = PagesSeparated(file.pdf[2])
     /\ PagesInOrder]_vars

\* C18 amended: the same with a blank line after every page, the last page
\* included; before page k is decoded the text holds pages 1..k-1
C18_BlankLineAfterEveryPage ==
  [][/\ PdfExtracted => fullText' = PagesTerminated(file.pdf[2])
     /\ pc' = "getPage" =>
          fullText' = PagesTerminated(SubSeq(file.pdf[2], 1, pageNo' - 1))
     /\ PagesInOrder]_vars

C18_Witness ==
  /\ pc = "validate"
  /\ lastEvent = "getTextContent"
  /\ Len(file.pdf[2]) = 2
  /\ fullText = X(60) \o <<"\n", "\n", "h", "i", " ">> \o X(40) \o <<"\n", "\n">>

\* C19: selectAnswer, next, prev, finish, jumpToQuestion and finalSubmit leave
\* the questions and timerDuration as they are; the questions change only by
\* retry or by the installing step of a run, timerDuration only by the
\* installing step; and in 'results' userAnswers changes only by retry
QuizEvents ==
  {"selectAnswer", "next", "prev", "finish", "jumpToQuestion", "finalSubmit"}
C19_QuestionsAndTimerFrozen ==
  [][/\ lastEvent' \in QuizEvents =>
          /\ quizQuestions' = quizQuestions
          /\ timerDuration' = timerDuration
     /\ quizQuestions' # quizQuestions => lastEvent' \in {"installed", "retry"}
     /\ timerDuration' # timerDuration => lastEvent' = "installed"
     /\ (appState = "results" /\ lastEvent' # "retry") =>
          /\ userAnswers' = userAnswers
          /\ userAnswersProps' = userAnswersProps]_vars

C19_Witness ==
  /\ lastEvent = "finalSubmit"
  /\ appState = "results"
  /\ quizQuestions = produced
  /\ Len(quizQuestions) = 2
  /\ timerDuration = 60
  /\ userAnswers = <<"A", "B">>

\* C20: in 'setup' and in 'generating' the session is empty: no questions, no
\* answers, currentIndex 0
C20_SessionEmptyBeforeQuiz ==
  appState \in {"setup", "generating"} =>
    /\ quizQuestions = <<>>
    /\ userAnswers = <<>>
    /\ userAnswersProps = {}
    /\ currentQuestionIndex = 0

C20_Witness ==
  /\ lastEvent = "failed"
  /\ appState = "setup"
  /\ produced # <<>>
  /\ error = MsgUnsupported

====
